---- MODULE Spec2Model ----
(***************************************************************************)
(* A model of the clip repository's Python tooling:                        *)
(*   scripts/ring_buff.py        RingBuffer and FixedDelay prototypes      *)
(*   build.py                    the memoised build/deploy/run dispatcher  *)
(*   scripts/generate_filters.py the FIR coefficient table generator       *)
(* Samples are modelled as small naturals; 0 stands for the float 0.0.     *)
(***************************************************************************)
EXTENDS Integers, Sequences, FiniteSets, TLC

\* ------------------------------------------------------------------ bounds
MaxDelay == 2
MaxPushes == 6
MaxSample == 1
MaxActions == 3
MaxTaps == 3
MaxCoeff == 2

Samples == 0..MaxSample
DelayArgs == (0 - (MaxDelay + 1))..(MaxDelay + 1)

VARIABLES
    ctor_max_size,  \* the argument the RingBuffer r was constructed with
    rb,         \* the RingBuffer object r of the self-test: [buffer, write_head]
    fd,         \* the FixedDelay object: [buffer (a RingBuffer), delay]
    pushed,     \* history: every sample pushed (or stepped) so far, oldest first
    ret,        \* the last call and what it returned or raised
    \* build.py, one process
    release,    \* args.release
    prof,       \* args.prof
    os_ubuntu,  \* whether platform.version() names Ubuntu
    a,          \* the action main()'s loop dispatched last ("" before the first)
    n_actions,  \* how many elements of args.actions the loop has consumed
    cache,      \* the functools.cache entries: <<function, release, prof>>
    effects,    \* external side effects carried out so far, in order
    artifact,   \* contents of src/dsp/filter_coefficients.rs
    gen_status, \* how the scripts/generate_filters.py subprocess ended
    exc,        \* the exception that ended the process, or "none"
    proc,       \* "running" or "exited"
    exit_status,    \* the process's exit status once it has exited
    \* scripts/generate_filters.py, one run
    g_pc,        \* the statement the script is about to execute
    out,         \* the lines printed to standard output so far
    num_taps,    \* the module-level variables of the script
    band_freqs,
    sample_rate,
    m,           \* the minimum-phase coefficient table
    remez,       \* the latest dsp.remez call: which filter, and how it ended
    g_exc        \* the exception that ended the script, or "none"

ringVars == <<ctor_max_size, rb, fd, pushed, ret>>
buildVars == <<release, prof, os_ubuntu, a, n_actions, cache, effects, artifact,
               gen_status, exc, proc, exit_status>>
genVars == <<g_pc, out, num_taps, band_freqs, sample_rate, m, remez, g_exc>>
vars == <<ringVars, buildVars, genVars>>

\* ------------------------------------------------- scripts/ring_buff.py
NoObject == [buffer |-> <<>>, write_head |-> 0]
NoCall == [op |-> "none", arg |-> 0, status |-> "ok", val |-> 0, obj |-> NoObject]

\* A constructor that allocates max_size slots, without the extra one.
RingBuffer_init_short(max_size) ==
    [buffer |-> [i \in 1..max_size |-> 0], write_head |-> 0]

\* RingBuffer.__init__: max_size + 1 slots of 0.0, write_head 0.
RingBuffer_init(max_size) ==
    [buffer |-> [i \in 1..(max_size + 1) |-> 0], write_head |-> 0]

\* A push that stores at the old write_head before advancing it.
RingBuffer_push_storeFirst(self, x) ==
    LET s == [buffer |-> [self.buffer EXCEPT ![self.write_head + 1] = x],
              write_head |-> (self.write_head + 1) % Len(self.buffer)]
    IN  [self |-> s, returned |-> s]

\* A push that hands back a copy taken before the store.
RingBuffer_push_returnsCopy(self, x) ==
    LET wh == (self.write_head + 1) % Len(self.buffer)
    IN  [self |-> [buffer |-> [self.buffer EXCEPT ![wh + 1] = x], write_head |-> wh],
         returned |-> [buffer |-> self.buffer, write_head |-> wh]]

\* RingBuffer.push: advance write_head, wrap it, store x there, return self.
\* The result is the object after the call and the object handed back.
\* Python list index i is sequence index i + 1.
RingBuffer_push(self, x) ==
    LET wh == (self.write_head + 1) % Len(self.buffer)
        s == [buffer |-> [self.buffer EXCEPT ![wh + 1] = x], write_head |-> wh]
    IN  [self |-> s, returned |-> s]

\* RingBuffer.tap: the assert checks the upper bound only; Python's % is
\* the floored modulo, so a negative delay wraps to a valid index.
RingBuffer_tap(self, delay) ==
    IF ~(delay < Len(self.buffer))
    THEN [status |-> "AssertionError", val |-> 0]
    ELSE [status |-> "ok",
          val |-> self.buffer[((self.write_head - delay) % Len(self.buffer)) + 1]]

\* FixedDelay.__init__: the buffer is RingBuffer(delay + 1).
FixedDelay_init(delay) ==
    [buffer |-> RingBuffer_init(delay + 1), delay |-> delay]

\* A step that taps one sample too far back.
FixedDelay_step_offByOne(self, x) ==
    LET b == RingBuffer_push(self.buffer, x).self
    IN  [self |-> [self EXCEPT !.buffer = b],
         out |-> RingBuffer_tap(b, self.delay + 1)]

\* FixedDelay.step: push(x), then tap(self.delay).
FixedDelay_step(self, x) ==
    LET b == RingBuffer_push(self.buffer, x).self
    IN  [self |-> [self EXCEPT !.buffer = b], out |-> RingBuffer_tap(b, self.delay)]

\* Programs that are not running keep their variables at these values.
BuildIdle ==
    /\ release = FALSE /\ prof = FALSE /\ os_ubuntu = FALSE
    /\ a = "" /\ n_actions = 0 /\ cache = {} /\ effects = <<>>
    /\ artifact = "previous" /\ gen_status = "not_run" /\ exc = "none"
    /\ proc = "running" /\ exit_status = 0

GenIdle ==
    /\ g_pc = "header" /\ out = <<>> /\ num_taps = 0 /\ band_freqs = <<>>
    /\ sample_rate = 0 /\ m = <<>> /\ g_exc = "none"
    /\ remez = [filter |-> 0, outcome |-> "not_called"]

RingIdle ==
    /\ ctor_max_size = 0
    /\ rb = RingBuffer_init(0)
    /\ fd = FixedDelay_init(0)
    /\ pushed = <<>>
    /\ ret = NoCall

\* --- the RingBuffer program: r = RingBuffer(max_size), then pushes and taps
RingInit ==
    /\ ctor_max_size \in 0..MaxDelay
    /\ rb = RingBuffer_init(ctor_max_size)
    /\ fd = FixedDelay_init(0)
    /\ pushed = <<>>
    /\ ret = NoCall
    /\ BuildIdle
    /\ GenIdle

Push ==
    /\ Len(pushed) < MaxPushes
    /\ \E x \in Samples :
        LET p == RingBuffer_push(rb, x)
        IN  /\ rb' = p.self
            /\ pushed' = Append(pushed, x)
            /\ ret' = [op |-> "push", arg |-> x, status |-> "ok", val |-> 0,
                       obj |-> p.returned]
    /\ UNCHANGED <<ctor_max_size, fd, buildVars, genVars>>

\* The self-test's chained call r.push(x).tap(d): the tap is made on the
\* object push returned.
PushTap ==
    /\ Len(pushed) < MaxPushes
    /\ \E x \in Samples, d \in DelayArgs :
        LET p == RingBuffer_push(rb, x)
            r == RingBuffer_tap(p.returned, d)
        IN  /\ rb' = p.self
            /\ pushed' = Append(pushed, x)
            /\ ret' = [op |-> "push.tap", arg |-> d, status |-> r.status,
                       val |-> r.val, obj |-> p.returned]
    /\ UNCHANGED <<ctor_max_size, fd, buildVars, genVars>>

Tap ==
    /\ \E d \in DelayArgs :
        LET r == RingBuffer_tap(rb, d)
        IN  ret' = [op |-> "tap", arg |-> d, status |-> r.status, val |-> r.val,
                    obj |-> NoObject]
    /\ UNCHANGED <<ctor_max_size, rb, fd, pushed, buildVars, genVars>>

RingNext == Push \/ Tap \/ PushTap
SpecRing == RingInit /\ [][RingNext]_vars

\* --- the FixedDelay program: r = FixedDelay(delay), then steps
DelayInit ==
    /\ fd \in {FixedDelay_init(D) : D \in 0..MaxDelay}
    /\ ctor_max_size = 0
    /\ rb = RingBuffer_init(0)
    /\ pushed = <<>>
    /\ ret = NoCall
    /\ BuildIdle
    /\ GenIdle

Step ==
    /\ Len(pushed) < MaxPushes
    /\ \E x \in Samples :
        LET r == FixedDelay_step(fd, x)
        IN  /\ fd' = r.self
            /\ pushed' = Append(pushed, x)
            /\ ret' = [op |-> "step", arg |-> x, status |-> r.out.status,
                       val |-> r.out.val, obj |-> NoObject]
    /\ UNCHANGED <<ctor_max_size, rb, buildVars, genVars>>

DelayNext == Step
SpecDelay == DelayInit /\ [][DelayNext]_vars

\* --------------------------------------------------------------- build.py
\* The world a handler acts on; exc is the exception it raised, if any.
World == [cache |-> cache, effects |-> effects, artifact |-> artifact,
          gen_status |-> gen_status, exc |-> "none"]

Effect(w, e) == [w EXCEPT !.effects = Append(@, e)]
Raise(w, e) == [w EXCEPT !.exc = e]

\* A decorator that calls through every time and never stores a result.
Memo_noStore(fn, w, result) == result

\* @functools.cache: a hit returns the stored result without running the
\* body; a miss runs it and stores the result only if the body returned.
Memo(fn, w, result) ==
    IF <<fn, release, prof>> \in w.cache
    THEN w
    ELSE IF result.exc = "none"
         THEN [result EXCEPT !.cache = @ \cup {<<fn, release, prof>>}]
         ELSE result

\* How a spawned command ends: it exits 0, exits non-zero, or cannot be
\* started at all (the executable is not on PATH).
CmdOutcomes == {"ok", "failed", "not_started"}

\* subprocess.run(cmd, check=check): a command that cannot be started raises
\* FileNotFoundError whatever check is; a non-zero exit raises
\* CalledProcessError only with check=True and is ignored otherwise.
subprocess_run(w, cmd, outcome, check) ==
    IF outcome = "not_started"
    THEN Raise(w, "FileNotFoundError")
    ELSE IF check /\ outcome = "failed"
         THEN Raise(Effect(w, cmd), "CalledProcessError")
         ELSE Effect(w, cmd)

\* A build that runs the bundle command without looking at the flags.
build_body_noFlagCheck(w, bundle) == subprocess_run(w, "bundle", bundle, TRUE)

\* build(): ValueError when both flags are set, else the bundle command with
\* check=True.
build_body(w, bundle) ==
    IF release /\ prof
    THEN Raise(w, "ValueError")
    ELSE subprocess_run(w, "bundle", bundle, TRUE)

build(w, bundle) == Memo("build", w, build_body(w, bundle))

\* A deploy that does not call build first.
deploy_body_noBuild(w, env) ==
    LET w2 == Effect(w, "rmtree_vst3")
        w3 == Effect(w2, "move_vst3")
        w4 == Effect(Effect(w3, "print_copied"), "move_clap")
    IN  IF ~env.rmtreeOk THEN Raise(w2, "OSError")
        ELSE IF ~env.vst3Ok THEN Raise(w3, "OSError")
        ELSE IF ~env.clapOk THEN Raise(w4, "OSError")
        ELSE w4

\* deploy(): build, rmtree of the vst3 destination, move vst3, print, move clap.
deploy_body(w, env) ==
    LET w1 == build(w, env.bundle)
        w2 == Effect(w1, "rmtree_vst3")
        w3 == Effect(w2, "move_vst3")
        w4 == Effect(Effect(w3, "print_copied"), "move_clap")
    IN  IF w1.exc # "none" THEN w1
        ELSE IF ~env.rmtreeOk THEN Raise(w2, "OSError")
        ELSE IF ~env.vst3Ok THEN Raise(w3, "OSError")
        ELSE IF ~env.clapOk THEN Raise(w4, "OSError")
        ELSE w4

deploy(w, env) == Memo("deploy", w, deploy_body(w, env))

\* run(): deploy, then the configured run command with check=True.
run_body(w, env) ==
    LET w1 == deploy(w, env)
    IN  IF w1.exc # "none" THEN w1
        ELSE subprocess_run(w1, "run_command", env.runCmd, TRUE)

run(w, env) == Memo("run", w, run_body(w, env))

\* debug(), lint(), fix(): one command each, without check.
debug(w, cmd) == Memo("debug", w, subprocess_run(w, "cargo_run", cmd, FALSE))
lint(w, cmd) == Memo("lint", w, subprocess_run(w, "clippy", cmd, FALSE))
fix(w, cmd) == Memo("fix", w, subprocess_run(w, "clippy_fix", cmd, FALSE))

\* dev_install(): two apt-get commands on Ubuntu, without check; nothing
\* elsewhere.
dev_install_body(w, update, install) ==
    IF ~os_ubuntu THEN w
    ELSE LET w1 == subprocess_run(w, "apt_update", update, FALSE)
         IN  IF w1.exc # "none" THEN w1
             ELSE subprocess_run(w1, "apt_install", install, FALSE)

dev_install(w, update, install) ==
    Memo("dev_install", w, dev_install_body(w, update, install))

\* generate_filters(): open(..., "w") truncates the artifact, then the design
\* script runs, without check, with its stdout redirected into it.  script is
\* "ok", "failed_empty" (died before printing), "failed_partial", or
\* "not_started" (no python3 to spawn: the exception leaves the artifact
\* truncated).
generate_filters_body(w, openOk, script) ==
    IF ~openOk
    THEN Raise(w, "OSError")
    ELSE IF script = "not_started"
    THEN [subprocess_run(w, "generate_filters.py", script, FALSE) EXCEPT
            !.artifact = "empty",
            !.gen_status = "not_started"]
    ELSE [subprocess_run(w, "generate_filters.py",
                         IF script = "ok" THEN "ok" ELSE "failed", FALSE) EXCEPT
            !.artifact = CASE script = "ok" -> "complete"
                           [] script = "failed_empty" -> "empty"
                           [] OTHER -> "partial",
            !.gen_status = IF script = "ok" THEN "ok" ELSE "failed"]

generate_filters(w, openOk, script) ==
    Memo("generate_filters", w, generate_filters_body(w, openOk, script))

Envs == [bundle : CmdOutcomes, rmtreeOk : BOOLEAN, vst3Ok : BOOLEAN,
         clapOk : BOOLEAN, runCmd : CmdOutcomes]
ScriptOutcomes == {"ok", "failed_empty", "failed_partial", "not_started"}

\* main() after parse_args: nothing dispatched yet.
BuildInit ==
    /\ release \in BOOLEAN /\ prof \in BOOLEAN /\ os_ubuntu \in BOOLEAN
    /\ a = "" /\ n_actions = 0 /\ cache = {} /\ effects = <<>>
    /\ artifact = "previous" /\ gen_status = "not_run" /\ exc = "none"
    /\ proc = "running" /\ exit_status = 0
    /\ RingIdle
    /\ GenIdle

\* One iteration of main()'s loop: the handler's result becomes the state; an
\* exception leaves main() and ends the process with a non-zero status.
Dispatch(action, w) ==
    /\ a' = action
    /\ n_actions' = n_actions + 1
    /\ cache' = w.cache
    /\ effects' = w.effects
    /\ artifact' = w.artifact
    /\ gen_status' = w.gen_status
    /\ exc' = w.exc
    /\ proc' = IF w.exc = "none" THEN "running" ELSE "exited"
    /\ exit_status' = IF w.exc = "none" THEN 0 ELSE 1
    /\ UNCHANGED <<release, prof, os_ubuntu, ringVars, genVars>>

\* The loop has another action to dispatch.
More == proc = "running" /\ n_actions < MaxActions

DoDevInstall ==
    /\ More
    /\ \E update \in CmdOutcomes, install \in CmdOutcomes :
          Dispatch("dev-install", dev_install(World, update, install))
DoGenerateFilters ==
    /\ More
    /\ \E openOk \in BOOLEAN, script \in ScriptOutcomes :
          Dispatch("generate-filters", generate_filters(World, openOk, script))
DoBuild ==
    /\ More
    /\ \E bundle \in CmdOutcomes : Dispatch("build", build(World, bundle))
\* deploy never reaches the run command, so its outcome is left out.
DoDeploy ==
    /\ More
    /\ \E env \in Envs : env.runCmd = "ok" /\ Dispatch("deploy", deploy(World, env))
DoRun == More /\ \E env \in Envs : Dispatch("run", run(World, env))
DoDebug == More /\ \E cmd \in CmdOutcomes : Dispatch("debug", debug(World, cmd))
DoLint == More /\ \E cmd \in CmdOutcomes : Dispatch("lint", lint(World, cmd))
DoFix == More /\ \E cmd \in CmdOutcomes : Dispatch("fix", fix(World, cmd))

\* The loop has run out of actions (nargs="+": at least one was given).
Exit ==
    /\ proc = "running"
    /\ n_actions >= 1
    /\ proc' = "exited"
    /\ exit_status' = 0
    /\ UNCHANGED <<release, prof, os_ubuntu, a, n_actions, cache, effects,
                   artifact, gen_status, exc, ringVars, genVars>>

BuildNext ==
    \/ DoDevInstall \/ DoGenerateFilters \/ DoBuild \/ DoDeploy \/ DoRun
    \/ DoDebug \/ DoLint \/ DoFix \/ Exit
SpecBuild == BuildInit /\ [][BuildNext]_vars

\* ------------------------------------------- scripts/generate_filters.py
\* A printed line: what it is, the constant it names, and the values in it.
Line(kind, name, val) == [kind |-> kind, name |-> name, val |-> val]

RECURSIVE GCD(_, _)
GCD(x, y) == IF y = 0 THEN x ELSE GCD(y, x % y)

\* np.array(band_freqs) / fs, one element: the quotient as a reduced fraction.
Normalized(f, fs) == LET g == GCD(f, fs) IN <<f \div g, fs \div g>>

\* print_info: the pass-band line, then the stop-band line.
print_info(freqs, fs) ==
    << Line("pass-band", "", <<Normalized(freqs[1], fs), Normalized(freqs[2], fs)>>),
       Line("stop-band", "", <<Normalized(freqs[3], fs), Normalized(freqs[4], fs)>>) >>

\* An emitter that declares the array before the length constant.
EmitFilter_declFirst(name, freqs, fs, table) ==
    print_info(freqs, fs)
    \o << Line("array", name, <<>>), Line("len", name, <<Len(table)>>) >>
    \o [i \in 1..Len(table) |-> Line("coeff", "", <<table[i]>>)]
    \o << Line("close", "", <<>>), Line("blank", "", <<>>) >>

\* The prints that emit one filter: print_info, the _LEN constant, the array
\* opening, one line per coefficient, the closing line and a blank line.
EmitFilter(name, freqs, fs, table) ==
    print_info(freqs, fs)
    \o << Line("len", name, <<Len(table)>>), Line("array", name, <<>>) >>
    \o [i \in 1..Len(table) |-> Line("coeff", "", <<table[i]>>)]
    \o << Line("close", "", <<>>), Line("blank", "", <<>>) >>

\* The embedded specifications, as inputs: the tap count, the band edges and
\* the sample rate.  <<0, 1, 2, 4>> at rate 8 is the second filter's
\* [0, 0.25, 0.5, 1.0] at rate 2; the others are out of order or pass Nyquist.
BandChoices == { <<0, 1, 2, 4>>, <<0, 2, 1, 4>>, <<0, 1, 2, 5>> }
FilterSpecs == [num_taps : 0..MaxTaps, band_freqs : BandChoices,
                sample_rate : {8}]

\* What dsp.remez accepts: a positive tap count and ordered band edges within
\* [0, fs/2].
ValidSpec(taps, freqs, fs) ==
    /\ taps >= 1
    /\ 0 <= freqs[1] /\ freqs[1] <= freqs[2] /\ freqs[2] < freqs[3]
    /\ freqs[3] <= freqs[4] /\ 2 * freqs[4] <= fs

\* What dsp.remez then dsp.minimum_phase hand back when neither raises: some
\* table of at least one and at most num_taps coefficients.
Coeffs == 1..MaxCoeff
Tables(taps) == UNION {[1..n -> Coeffs] : n \in 1..taps}

\* The "Generated with" comment line and the blank line after it.
HeaderLines == << Line("header", "", <<>>), Line("blank", "", <<>>) >>

PrintHeader ==
    /\ g_pc = "header"
    /\ out' = out \o HeaderLines
    /\ g_pc' = "design1"
    /\ UNCHANGED <<num_taps, band_freqs, sample_rate, m, remez, g_exc, ringVars,
                   buildVars>>

\* How the Remez exchange of a dsp.remez call can end: the extremal set
\* stabilises; remez gives up with a ValueError; or the maxiter iterations
\* run out and remez returns the taps of the last iterate.
Exchanges == {"converged", "gave_up", "exhausted"}

\* How a dsp.remez call ends: it rejects an invalid specification, raises on
\* giving up, or returns taps, converged or not.  The script passes
\* maxiter=2000 and never looks at whether the design converged.
RemezOutcome(taps, freqs, fs, exchange) ==
    IF ~ValidSpec(taps, freqs, fs) THEN "rejected"
    ELSE CASE exchange = "converged" -> "ok"
           [] exchange = "gave_up" -> "no_convergence_raised"
           [] OTHER -> "no_convergence_returned"

NoConvergence == {"no_convergence_raised", "no_convergence_returned"}

\* The script calls dsp.remez with no handler around it and no check of its
\* result: it stops exactly when remez raises.
DesignAborts(outcome) == outcome \in {"rejected", "no_convergence_raised"}

\* The design of filter k: assign the specification, then remez, then
\* minimum_phase, which may raise as well.
Design(k, next) ==
    /\ \E spec \in FilterSpecs, exchange \in Exchanges, minPhaseOk \in BOOLEAN :
        LET outcome == RemezOutcome(spec.num_taps, spec.band_freqs,
                                    spec.sample_rate, exchange)
        IN  /\ num_taps' = spec.num_taps
            /\ band_freqs' = spec.band_freqs
            /\ sample_rate' = spec.sample_rate
            /\ remez' = [filter |-> k, outcome |-> outcome]
            /\ IF DesignAborts(outcome) \/ ~minPhaseOk
               THEN /\ m' = m
                    /\ g_pc' = "failed"
                    /\ g_exc' = "ValueError"
               ELSE /\ m' \in Tables(spec.num_taps)
                    /\ g_pc' = next
                    /\ g_exc' = "none"
    /\ UNCHANGED <<out, ringVars, buildVars>>

Emit(next, name) ==
    /\ out' = out \o EmitFilter(name, band_freqs, sample_rate, m)
    /\ g_pc' = next
    /\ UNCHANGED <<num_taps, band_freqs, sample_rate, m, remez, g_exc, ringVars,
                   buildVars>>

Name1 == "LP_FIR_2X_TO_1X_MINIMUM"
Name2 == "LP_FIR_4X_TO_2X_MINIMUM"

Design1 == g_pc = "design1" /\ Design(1, "emit1")
Emit1 == g_pc = "emit1" /\ Emit("design2", Name1)
Design2 == g_pc = "design2" /\ Design(2, "emit2")
Emit2 == g_pc = "emit2" /\ Emit("done", Name2)

GenInit ==
    /\ g_pc = "header" /\ out = <<>> /\ num_taps = 0 /\ band_freqs = <<>>
    /\ sample_rate = 0 /\ m = <<>> /\ g_exc = "none"
    /\ remez = [filter |-> 0, outcome |-> "not_called"]
    /\ RingIdle
    /\ BuildIdle

GenNext == PrintHeader \/ Design1 \/ Emit1 \/ Design2 \/ Emit2
SpecGen == GenInit /\ [][GenNext]_vars

\* ------------------------------------------------ claims: ring_buff.py
Capacity == Len(rb.buffer)
NPushed == Len(pushed)
\* The sample pushed d pushes before the most recent one, or the fill value.
DelayedSample(d) == IF d < NPushed THEN pushed[NPushed - d] ELSE 0

\* C1: after any n pushes, for every d in [0, C), tap(d) returns the value
\* pushed d pushes before the most recent push when d < n and the initial
\* fill value 0.0 when d >= n; tap(0) is the most recently pushed value.
C1_TapReturnsDelayedSample ==
    /\ ctor_max_size + 1 = Capacity
    /\ \A d \in 0..(Capacity - 1) :
          RingBuffer_tap(rb, d) = [status |-> "ok", val |-> DelayedSample(d)]
    /\ (ret.op \in {"tap", "push.tap"} /\ ret.arg \in 0..(Capacity - 1))
          => (ret.status = "ok" /\ ret.val = DelayedSample(ret.arg))
    /\ (ret.op \in {"tap", "push.tap"} /\ ret.arg = 0 /\ NPushed > 0)
          => ret.val = pushed[NPushed]

\* C1 witness: the buffer has wrapped and the deepest tap returned a pushed 1.
C1_Witness ==
    /\ ret.op = "tap"
    /\ Capacity > 1
    /\ NPushed > Capacity
    /\ ret.arg = Capacity - 1
    /\ ret.val = 1
    /\ pushed[NPushed] = 0

\* C2: the k-th call step(x_k) of a FixedDelay with delay D returns x_(k-D)
\* when k > D and 0.0 when k <= D.
C2_StepDelaysByD ==
    ret.op = "step" =>
        /\ ret.status = "ok"
        /\ ret.val = (IF NPushed > fd.delay
                      THEN pushed[NPushed - fd.delay] ELSE 0)

\* C2 witness: a step past the fill phase, after the line's store has wrapped,
\* returned a 1 that entered D >= 1 steps earlier while a 0 was put in.
C2_Witness ==
    /\ ret.op = "step"
    /\ fd.delay >= 1
    /\ NPushed > Len(fd.buffer.buffer)
    /\ ret.arg = 0
    /\ ret.val = 1

\* C3 (as claimed): tap(d) with d outside [0, C) fails with an assertion
\* failure and never returns a sample value.
C3_TapOutsideRangeAsserts ==
    (ret.op \in {"tap", "push.tap"} /\ (ret.arg < 0 \/ ret.arg >= Capacity))
        => ret.status = "AssertionError"

\* C6 (as claimed): a FixedDelay with delay D owns a RingBuffer whose backing
\* store has exactly D + 1 slots.
C6_DelayLineHasDPlusOneSlots ==
    Len(fd.buffer.buffer) = fd.delay + 1

\* C7: push(x) sets write_head to (write_head + 1) mod C, stores x at the new
\* write_head, leaves every other slot and the length unchanged, and returns
\* the buffer it was called on.
C7_PushFrame ==
    [][(pushed' # pushed) =>
        LET x == pushed'[Len(pushed')]
        IN  /\ rb'.write_head = (rb.write_head + 1) % Capacity
            /\ Len(rb'.buffer) = Capacity
            /\ rb'.buffer[rb'.write_head + 1] = x
            /\ \A i \in 1..Capacity :
                  i # rb'.write_head + 1 => rb'.buffer[i] = rb.buffer[i]
            /\ ret'.op \in {"push", "push.tap"}
            /\ ret'.obj = rb']_vars

\* C7 witness: a push wrapped write_head back to slot 0 of a buffer that still
\* holds a 1 in another slot.
C7_Witness ==
    /\ ret.op = "push"
    /\ Capacity > 1
    /\ NPushed > Capacity
    /\ rb.write_head = 0
    /\ rb.buffer[1] = 0
    /\ \E i \in 2..Capacity : rb.buffer[i] = 1

\* C8: in every reachable state the backing store has exactly
\* C = maxDelay + 1 slots and 0 <= write_head < C; initially every slot is 0.0.
C8_CapacityAndHeadInRange ==
    /\ Len(rb.buffer) = ctor_max_size + 1
    /\ rb.write_head \in 0..ctor_max_size
    /\ (NPushed = 0 => \A i \in 1..Len(rb.buffer) : rb.buffer[i] = 0)

\* C8 witness: after pushes that wrapped and a tap, write_head is on the last slot.
C8_Witness ==
    /\ ret.op = "tap"
    /\ ctor_max_size >= 1
    /\ NPushed > Capacity
    /\ rb.write_head = ctor_max_size

\* ---------------------------------------------------- claims: build.py
Count(e) == Cardinality({i \in DOMAIN effects : effects[i] = e})
EffectNames == {effects[i] : i \in DOMAIN effects}
\* The memoised function an action name dispatches to.
HandlerOf(action) ==
    CASE action = "dev-install" -> "dev_install"
      [] action = "generate-filters" -> "generate_filters"
      [] OTHER -> action

\* C4 (as claimed): when the generate-filters design script fails, the build
\* tool exits with a non-zero status and the artifact keeps its previous
\* contents.
C4_FailedGenerationLeavesArtifact ==
    gen_status = "failed" =>
        /\ artifact = "previous"
        /\ (proc = "exited" => exit_status # 0)

\* C9: within one process every external side effect happens at most once,
\* and dispatching an action whose handler already completed with the same
\* flags changes nothing but the loop position.
C9_RepeatedActionIsNoOp ==
    /\ [](\A e \in EffectNames : Count(e) <= 1)
    /\ [][(n_actions' = n_actions + 1
            /\ <<HandlerOf(a'), release, prof>> \in cache)
          => /\ effects' = effects
             /\ artifact' = artifact
             /\ gen_status' = gen_status
             /\ cache' = cache
             /\ proc' = "running"]_vars

\* C9 witness: run executed everything once through its dependencies, and a
\* later build on the command line added nothing.
C9_Witness ==
    /\ a = "build"
    /\ proc = "running"
    /\ n_actions >= 2
    /\ {<<"build", release, prof>>, <<"deploy", release, prof>>,
        <<"run", release, prof>>} \subseteq cache
    /\ Count("bundle") = 1
    /\ effects[Len(effects)] = "run_command"

\* ------------------------------------------ claims: generate_filters.py
\* C5 (as claimed): when an embedded specification is invalid the script has
\* written nothing to standard output at the point of failure.
C5_InvalidSpecWritesNothing ==
    (g_pc = "failed" /\ ~ValidSpec(num_taps, band_freqs, sample_rate))
        => out = <<>>

\* The lines of one filter starting at out[s]: pass-band, stop-band, the
\* length constant, the array opening, n coefficient lines, the closing line.
FilterShape(s, name, n) ==
    /\ s + 4 + n <= Len(out)
    /\ out[s].kind = "pass-band"
    /\ out[s + 1].kind = "stop-band"
    /\ out[s + 2] = Line("len", name, <<n>>)
    /\ out[s + 3] = Line("array", name, <<>>)
    /\ \A i \in 1..n : out[s + 3 + i].kind = "coeff"
    /\ out[s + 4 + n].kind = "close"

\* ... the band lines state the current band edges over the sample rate and
\* the coefficient lines are the table's values in table order.
FilterBlock(s, name, table) ==
    /\ FilterShape(s, name, Len(table))
    /\ <<out[s], out[s + 1]>> = print_info(band_freqs, sample_rate)
    /\ \A i \in 1..Len(table) : out[s + 3 + i].val = <<table[i]>>

\* The out index where the first filter starts, and where the second does.
Start1 == Len(HeaderLines) + 1
Start2 == Start1 + 4 + out[Start1 + 2].val[1] + 2

\* C10: each emitted filter is, in order, the pass-band line, the stop-band
\* line, the length constant equal to the number of coefficients, the array
\* with exactly that many coefficients in table order and the closing line;
\* the first filter's block precedes the second's.
C10_EmittedFilterLayout ==
    /\ g_pc = "design2" =>
          /\ FilterBlock(Start1, Name1, m)
          /\ Len(out) = Start1 + 5 + Len(m)
    /\ g_pc \in {"emit2", "done"} =>
          \E n \in 1..MaxTaps : FilterShape(Start1, Name1, n)
    /\ g_pc = "done" =>
          /\ FilterBlock(Start2, Name2, m)
          /\ Len(out) = Start2 + 5 + Len(m)

\* C10 witness: both filters were emitted, with different table lengths and
\* a first table whose coefficients differ.
C10_Witness ==
    /\ g_pc = "done"
    /\ Len(m) >= 2
    /\ m[1] # m[2]
    /\ out[Start1 + 2].val[1] # Len(m)
    /\ out[Start1 + 2].val[1] >= 2
    /\ out[Start1 + 4].val # out[Start1 + 5].val

\* The constants a filter's block declares, by filter number.
NameOf(k) == IF k = 1 THEN Name1 ELSE Name2
\* Whether out holds the length constant or the array of the named filter.
Emitted(name) ==
    \E i \in DOMAIN out : out[i].kind \in {"len", "array"} /\ out[i].name = name

\* C11 (as claimed): if the Remez design of a filter does not converge within
\* maxiter iterations, neither the length constant nor the coefficient array
\* of that filter is ever emitted, and no later filter is emitted either.
C11_NoConvergenceEmitsNothing ==
    remez.outcome \in NoConvergence =>
        \A k \in remez.filter..2 : ~Emitted(NameOf(k))

\* ------------------------------------------- claims: build.py, ordering
\* The positions in effects at which side effect e was carried out.
At(e) == {i \in DOMAIN effects : effects[i] = e}
\* e was carried out, and returned without raising, before position i: an
\* effect that raises is the last one of the process.
DoneBefore(e, i) == \E j \in At(e) : j < i
DeployEffects == {"rmtree_vst3", "move_vst3", "move_clap"}
Completed(fn) == <<fn, release, prof>> \in cache

\* C14: whenever the run command is executed, the bundle command has
\* completed successfully and deploy has moved both bundles earlier in the
\* process; whenever deploy removes or moves a file, the bundle command has
\* completed successfully; a failing build prevents every deploy and run
\* side effect.
C14_BuildBeforeDeployBeforeRun ==
    /\ \A i \in At("run_command") :
          /\ Completed("build") /\ Completed("deploy")
          /\ \E b \in At("bundle"), v \in At("move_vst3"), c \in At("move_clap") :
                b < v /\ v < c /\ c < i
    /\ \A i \in DOMAIN effects :
          effects[i] \in DeployEffects =>
              Completed("build") /\ DoneBefore("bundle", i)
    /\ (exc # "none" /\ ~Completed("build")) =>
          \A i \in DOMAIN effects :
              effects[i] \notin DeployEffects \cup {"run_command"}

\* C14 witness: the run command was executed, after an unrelated action came
\* first on the command line.
C14_Witness ==
    /\ a = "run"
    /\ effects # <<>>
    /\ effects[Len(effects)] = "run_command"
    /\ effects[1] # "bundle"
    /\ exc = "none"

\* C15: with both --release and --prof set, build, deploy and run each fail
\* with a ValueError before the bundle command, and nothing is removed, moved
\* or run.
C15_BothFlagsRejected ==
    (release /\ prof) =>
        /\ \A i \in DOMAIN effects :
              effects[i] \notin DeployEffects \cup {"bundle", "run_command"}
        /\ a \in {"build", "deploy", "run"} =>
              /\ exc = "ValueError"
              /\ proc = "exited" /\ exit_status # 0
              /\ ~Completed(a)

\* C15 witness: both flags set, an earlier action ran its command, and run
\* then ended the process with the ValueError.
C15_Witness ==
    /\ release /\ prof
    /\ a = "run"
    /\ exc = "ValueError"
    /\ n_actions >= 2
    /\ effects # <<>>

====
